---------------------------- MODULE Spec2Model ----------------------------
(***************************************************************************)
(* Model of the VocabLevels curation tools.                                *)
(*                                                                         *)
(*   Spec    the VocabManager object of vocab_manager.py: the five level   *)
(*           DataFrames in memory (dfs), the level files on disk (files),  *)
(*           and the add / remove / update / move operations.              *)
(*   SpecB2  the fix_b2.py script: one run reads the five level files and  *)
(*           the master list and rewrites B2.csv.                          *)
(*   SpecSync  sync_a2_with_goethe.py: the merge of A2 with the word list. *)
(*   SpecNorm  fix_csvs.py and fix_capitalization.py: the correction of    *)
(*           one row, applied to a row and again to its own result.        *)
(*   SpecCheck  check_quality_v2.py: the defects reported for one row.     *)
(*                                                                         *)
(* In SpecSync, SpecNorm and SpecCheck lemmas, translations and file lines *)
(* are all sequences of characters, and input / output hold what one run   *)
(* of the script reads and produces.                                       *)
(*                                                                         *)
(* A lemma is a sequence of one-character strings, so that the tests the   *)
(* code makes on characters (' ' in word) and the order sort_values uses   *)
(* (code point order of Python str) are computed, not assumed.  A          *)
(* translation is a string.  A row is [lemma, translation]; a level is a   *)
(* sequence of rows in DataFrame order.                                    *)
(***************************************************************************)
EXTENDS Integers, Sequences, FiniteSets, TLC

VARIABLES dfs,     \* VocabManager.dfs: level -> sequence of rows (in memory)
          files,   \* the level CSV files: level -> sequence of rows (on disk)
          op,      \* the VocabManager operation that has just returned, or "none"
          out,     \* what that call printed, in order
          master,  \* master_lemmas.txt as the set fix_b2 reads
          run,     \* the values computed by the last fix_b2 run
          input,   \* what a run of a merge, correction or validation script reads
          output   \* what that run has produced so far

vars == <<dfs, files, op, out, master, run, input, output>>

-----------------------------------------------------------------------------
(* Bounds *)

\* rows in the lexicon the VocabManager loads
MaxInitRows == 2

\* rows of B2.csv before a fix_b2 run
MaxB2Rows == 2

\* fix_b2 runs in a row
MaxRuns == 2

-----------------------------------------------------------------------------
(* Strings *)

LEVELS == <<"A1", "A2", "B1", "B2", "C1">>

Levels == {LEVELS[i] : i \in 1..Len(LEVELS)}

\* ord(c) of the characters the model uses
Code(c) ==
    CASE c = "\t" -> 9
      [] c = " " -> 32
      [] c = "0" -> 48
      [] c = "1" -> 49
      [] c = "2" -> 50
      [] c = "3" -> 51
      [] c = "4" -> 52
      [] c = "5" -> 53
      [] c = "6" -> 54
      [] c = "7" -> 55
      [] c = "8" -> 56
      [] c = "9" -> 57
      [] c = "a" -> 97
      [] c = "b" -> 98
      [] c = "c" -> 99
      [] c = "w" -> 119
      [] c = "A" -> 65
      [] c = "B" -> 66
      [] c = "C" -> 67
      [] c = "D" -> 68
      [] c = "E" -> 69
      [] c = "F" -> 70
      [] c = "G" -> 71
      [] c = "H" -> 72
      [] c = "I" -> 73
      [] c = "J" -> 74
      [] c = "K" -> 75
      [] c = "L" -> 76
      [] c = "M" -> 77
      [] c = "N" -> 78
      [] c = "O" -> 79
      [] c = "P" -> 80
      [] c = "Q" -> 81
      [] c = "R" -> 82
      [] c = "S" -> 83
      [] c = "T" -> 84
      [] c = "U" -> 85
      [] c = "V" -> 86
      [] c = "W" -> 87
      [] c = "X" -> 88
      [] c = "Y" -> 89
      [] c = "Z" -> 90
      [] c = "d" -> 100
      [] c = "e" -> 101
      [] c = "f" -> 102
      [] c = "g" -> 103
      [] c = "h" -> 104
      [] c = "i" -> 105
      [] c = "j" -> 106
      [] c = "k" -> 107
      [] c = "l" -> 108
      [] c = "m" -> 109
      [] c = "n" -> 110
      [] c = "o" -> 111
      [] c = "p" -> 112
      [] c = "q" -> 113
      [] c = "r" -> 114
      [] c = "s" -> 115
      [] c = "t" -> 116
      [] c = "u" -> 117
      [] c = "v" -> 118
      [] c = "x" -> 120
      [] c = "y" -> 121
      [] c = "z" -> 122
      [] c = "ä" -> 228
      [] c = "ö" -> 246
      [] c = "ü" -> 252
      [] c = "ß" -> 223
      [] c = "Ä" -> 196
      [] c = "Ö" -> 214
      [] c = "Ü" -> 220
      [] c = "[" -> 91
      [] c = "]" -> 93
      [] c = "-" -> 45
      [] c = "_" -> 95
      [] c = ":" -> 58
      [] c = "." -> 46

Min(a, b) == IF a <= b THEN a ELSE b

\* Python's u < v on str: the first differing code point decides, a proper
\* prefix is smaller
StrLess(u, v) ==
    \/ \E i \in 1..Min(Len(u), Len(v)) :
          /\ \A j \in 1..(i - 1) : u[j] = v[j]
          /\ Code(u[i]) < Code(v[i])
    \/ /\ Len(u) < Len(v)
       /\ \A j \in 1..Len(u) : u[j] = v[j]

\* ' ' in word
HasSpace(word) == \E i \in 1..Len(word) : word[i] = " "

Row(lemma, translation) == [lemma |-> lemma, translation |-> translation]

\* df['German_Lemma'] as a set
LemmaSet(df) == {df[i].lemma : i \in 1..Len(df)}

\* word in df['German_Lemma'].values
InLevel(df, word) == \E i \in 1..Len(df) : df[i].lemma = word

\* df.sort_values(by='German_Lemma').reset_index(drop=True): the rows in
\* ascending lemma order.  The default sort kind is not stable, so rows with
\* the same lemma may come out in any order: every sorted arrangement is an
\* outcome.
SortValues(df) ==
    LET n == Len(df)
        perms == {p \in [1..n -> 1..n] : \A i, j \in 1..n : i # j => p[i] # p[j]}
        sorted(p) == \A i \in 1..(n - 1) : ~StrLess(df[p[i + 1]].lemma, df[p[i]].lemma)
    IN  {[i \in 1..n |-> df[p[i]]] : p \in {q \in perms : sorted(q)}}

-----------------------------------------------------------------------------
(* VocabManager (vocab_manager.py).  An operation maps a state of the        *)
(* object, s = [dfs, files, out], to the state it leaves; add_word and       *)
(* move_word sort, so they map it to the set of states they may leave.       *)

\* a line of output: what was reported and, where the code names one, the level
Msg(m, level) == [msg |-> m, level |-> level]

Say(s, m, level) == [s EXCEPT !.out = Append(@, Msg(m, level))]

\* An optional argument (argparse gives None or a string): <<>> is None,
\* <<v>> is the value v.
None == <<>>

Some(v) == <<v>>

\* `if new_translation:` -- neither None nor the empty string
TruthyTranslation(o) == o # None /\ o[1] # ""

\* `if new_word:` -- neither None nor the empty string
TruthyWord(o) == o # None /\ o[1] # <<>>

\* save_level: the level's DataFrame overwrites its file
save_level(s, level) == [s EXCEPT !.files[level] = s.dfs[level]]

\* find_word: the levels holding the word, in LEVELS order
find_word(d, word) == SelectSeq(LEVELS, LAMBDA level : InLevel(d[level], word))

\* add_word with the existence check left out and the new row appended
add_word_unchecked(s, level, word, translation) ==
    {Say(save_level([s EXCEPT !.dfs[level] = sorted], level), "Added", level) :
        sorted \in SortValues(Append(s.dfs[level], Row(word, translation)))}

\* add_word: new_row is built and never used; the level is sorted and saved
add_word(s, level, word, translation) ==
    IF find_word(s.dfs, word) # <<>>
    THEN {Say(s, "ErrorExists", "")}
    ELSE IF HasSpace(word)
    THEN {Say(s, "ErrorSpaces", "")}
    ELSE {Say(save_level([s EXCEPT !.dfs[level] = sorted], level), "Added", level) :
            sorted \in SortValues(s.dfs[level])}

\* df[df['German_Lemma'] != word]
DropWord(df, word) == SelectSeq(df, LAMBDA r : r.lemma # word)

\* the loop of remove_word from LEVELS[i] on
RECURSIVE RemoveLoop(_, _, _, _)
RemoveLoop(s, word, i, found) ==
    IF i > Len(LEVELS)
    THEN IF ~found THEN Say(s, "NotFound", "") ELSE s
    ELSE LET level == LEVELS[i]
         IN  IF InLevel(s.dfs[level], word)
             THEN RemoveLoop(
                      Say(save_level([s EXCEPT !.dfs[level] = DropWord(@, word)], level),
                          "Removed", level),
                      word, i + 1, TRUE)
             ELSE RemoveLoop(s, word, i + 1, found)

\* remove_word that stops at the first level holding the word
remove_word_first(s, word) ==
    LET found_levels == find_word(s.dfs, word)
    IN  IF found_levels = <<>>
        THEN Say(s, "NotFound", "")
        ELSE LET level == found_levels[1]
             IN  Say(save_level([s EXCEPT !.dfs[level] = DropWord(@, word)], level),
                     "Removed", level)

remove_word(s, word) == RemoveLoop(s, word, 1, FALSE)

\* idx[0]: the first row of df whose lemma is word
FirstIdx(df, word) ==
    CHOOSE i \in 1..Len(df) :
        /\ df[i].lemma = word
        /\ \A j \in 1..(i - 1) : df[j].lemma # word

\* the loop of update_word over found_levels from position k on
RECURSIVE UpdateLoop(_, _, _, _, _, _)
UpdateLoop(s, word, new_translation, new_word, found_levels, k) ==
    IF k > Len(found_levels)
    THEN s
    ELSE LET level == found_levels[k]
             idx0 == FirstIdx(s.dfs[level], word)
             s1 == IF TruthyTranslation(new_translation)
                   THEN Say([s EXCEPT !.dfs[level][idx0].translation = new_translation[1]],
                            "UpdatedTranslation", level)
                   ELSE s
         IN  IF TruthyWord(new_word)
             THEN IF find_word(s1.dfs, new_word[1]) # <<>>
                  THEN Say(s1, "CannotRename", "")
                  ELSE UpdateLoop(
                           save_level(
                               Say([s1 EXCEPT !.dfs[level][idx0].lemma = new_word[1]],
                                   "Renamed", level),
                               level),
                           word, new_translation, new_word, found_levels, k + 1)
             ELSE UpdateLoop(save_level(s1, level),
                             word, new_translation, new_word, found_levels, k + 1)

update_word(s, word, new_translation, new_word) ==
    LET found_levels == find_word(s.dfs, word)
    IN  IF found_levels = <<>>
        THEN Say(s, "NotFound", "")
        ELSE UpdateLoop(s, word, new_translation, new_word, found_levels, 1)

\* move_word without the check that the word is already in the target level
move_word_unchecked(s, word, target_level) ==
    LET found_levels == find_word(s.dfs, word)
    IN  IF found_levels = <<>>
        THEN {Say(s, "NotFound", "")}
        ELSE LET current_level == found_levels[1]
                 df == s.dfs[current_level]
                 translation == df[FirstIdx(df, word)].translation
             IN  {Say(s2, "Moved", target_level) :
                     s2 \in add_word(remove_word(s, word), target_level, word, translation)}

move_word(s, word, target_level) ==
    LET found_levels == find_word(s.dfs, word)
    IN  IF found_levels = <<>>
        THEN {Say(s, "NotFound", "")}
        ELSE LET current_level == found_levels[1]
                 df == s.dfs[current_level]
                 translation == df[FirstIdx(df, word)].translation
             IN  IF \E i \in 1..Len(found_levels) : found_levels[i] = target_level
                 THEN {Say(s, "MoveAborted", target_level)}
                 ELSE {Say(s2, "Moved", target_level) :
                         s2 \in add_word(remove_word(s, word), target_level, word,
                                         translation)}

-----------------------------------------------------------------------------
(* The VocabManager as a state machine *)

\* lemmas of the loaded lexicon
InitLemmas == {<<"a">>, <<"b">>}

\* lemmas given as arguments: two single words, one with a space, one with a
\* tab
Words == InitLemmas \cup {<<"a", " ", "b">>, <<"a", "\t">>}

Translations == {"x", "y"}

\* --trans: absent, empty or a translation
OptTranslations == {None, Some(""), Some("y")}

\* --lemma: absent or a lemma
OptWords == {None} \cup {Some(w) : w \in Words}

EmptyLexicon == [level \in Levels |-> <<>>]

\* the lexicons of at most n rows, rows in any order
RECURSIVE Lexicons(_)
Lexicons(n) ==
    IF n = 0
    THEN {EmptyLexicon}
    ELSE LET smaller == Lexicons(n - 1)
         IN  smaller \cup
             {[lex EXCEPT ![level] = Append(@, Row(w, t))] :
                 lex \in smaller, level \in Levels, w \in InitLemmas, t \in Translations}

\* no merge, correction or validation script is part of the run
NoScript == <<>>

NoRun == [n |-> 0, should_be_b2 |-> {}, to_remove |-> {}, rc |-> 0]

\* __init__: load_data reads every level file into dfs.  The translations
\* of the loaded rows are non-empty, so astype(str) leaves them as read.
Init ==
    /\ files \in Lexicons(MaxInitRows)
    /\ dfs = files
    /\ op = "none"
    /\ out = <<>>
    /\ master = {}
    /\ run = NoRun
    /\ input = NoScript
    /\ output = NoScript

\* the object as a call finds it
Cur == [dfs |-> dfs, files |-> files, out |-> <<>>]

\* the object as the call leaves it
Left == [dfs |-> dfs', files |-> files', out |-> out']

Returns(s, name) ==
    /\ dfs' = s.dfs
    /\ files' = s.files
    /\ out' = s.out
    /\ op' = name
    /\ UNCHANGED <<master, run, input, output>>

\* A call is made when the caller has control: no call is under way.
AddWord ==
    /\ op = "none"
    /\ \E level \in Levels, word \in Words, translation \in Translations :
          \E s \in add_word(Cur, level, word, translation) : Returns(s, "add")

RemoveWord ==
    /\ op = "none"
    /\ \E word \in Words : Returns(remove_word(Cur, word), "remove")

UpdateWord ==
    /\ op = "none"
    /\ \E word \in Words, new_translation \in OptTranslations, new_word \in OptWords :
          Returns(update_word(Cur, word, new_translation, new_word), "update")

MoveWord ==
    /\ op = "none"
    /\ \E word \in Words, target_level \in Levels :
          \E s \in move_word(Cur, word, target_level) : Returns(s, "move")

\* the caller has read the output of the call and goes on
Resume ==
    /\ op # "none"
    /\ op' = "none"
    /\ out' = <<>>
    /\ UNCHANGED <<dfs, files, master, run, input, output>>

Next == AddWord \/ RemoveWord \/ UpdateWord \/ MoveWord \/ Resume

Spec == Init /\ [][Next]_vars

-----------------------------------------------------------------------------
(* fix_b2 (fix_b2.py): one run of the script on the files on disk *)

\* should_be_b2 without the subtraction of C1
ShouldBeB2_KeepsC1(m, a1, a2, b1, c1) == ((m \ a1) \ a2) \ b1

\* should_be_b2 = master - a1 - a2 - b1 - c1
ShouldBeB2(m, a1, a2, b1, c1) == (((m \ a1) \ a2) \ b1) \ c1

\* b2_df[b2_df['German_Lemma'].isin(should_be_b2)]
KeepRows(b2_df, should_be_b2) == SelectSeq(b2_df, LAMBDA r : r.lemma \in should_be_b2)

\* the verification that only looks for lemmas outside the target
Verify_ExtraOnly(final_b2, should_be_b2) ==
    IF final_b2 \subseteq should_be_b2 THEN 0 ELSE 1

\* the verification at the end of fix_b2(): 0 when the lemma set of the
\* written B2 equals should_be_b2, 1 otherwise
Verify(final_b2, should_be_b2) ==
    IF final_b2 = should_be_b2 THEN 0 ELSE 1

\* fix_b2(): the files it may leave and the values it computes, one record
\* [files, should_be_b2, to_remove, rc] for each outcome of the sort
fix_b2(f, m) ==
    LET a1 == LemmaSet(f["A1"])
        a2 == LemmaSet(f["A2"])
        b1 == LemmaSet(f["B1"])
        b2_current == LemmaSet(f["B2"])
        c1 == LemmaSet(f["C1"])
        should_be_b2 == ShouldBeB2(m, a1, a2, b1, c1)
        to_remove == b2_current \ should_be_b2
    IN  {[files |-> [f EXCEPT !["B2"] = new_b2_df],
          should_be_b2 |-> should_be_b2,
          to_remove |-> to_remove,
          rc |-> Verify(LemmaSet(new_b2_df), should_be_b2)] :
            new_b2_df \in SortValues(KeepRows(f["B2"], should_be_b2))}

Digits == <<"1", "2", "3", "4", "5", "6", "7", "8", "9">>

\* the lemma "w1" .. "w10"
W(k) == IF k < 10 THEN <<"w", Digits[k]>> ELSE <<"w", "1", "0">>

\* the four levels fix_b2 only reads, each with the given lemmas
OtherLevels(a1, a2, b1, c1) ==
    [A1 |-> a1, A2 |-> a2, B1 |-> b1, C1 |-> c1]

\* rows of the lemmas ks (numbers of W) in ascending order, translation "x"
RECURSIVE RowsOf(_)
RowsOf(ks) ==
    IF ks = <<>> THEN <<>> ELSE <<Row(W(ks[1]), "x")>> \o RowsOf(Tail(ks))

\* the sequences of at most n elements of S
RECURSIVE SeqsUpTo(_, _)
SeqsUpTo(S, n) ==
    IF n = 0
    THEN {<<>>}
    ELSE LET shorter == SeqsUpTo(S, n - 1)
         IN  shorter \cup {Append(q, x) : q \in shorter, x \in S}

\* The reconciliation scenario: Master Set w1..w10, two lemmas in each of A1,
\* A2, B1 and C1.  B2 starts with any rows over lemmas of A1, of C1, of the
\* target and one lemma that is not in the Master Set.
ScenarioMaster == {W(k) : k \in 1..10}

ScenarioLevels ==
    OtherLevels(RowsOf(<<1, 2>>), RowsOf(<<3, 4>>), RowsOf(<<5, 6>>), RowsOf(<<7, 8>>))

ScenarioB2Lemmas == {W(1), W(7), W(9), W(10), <<"c">>}

\* Small lexicons: each of two lemmas is in the Master Set or not, and in one
\* of A1, A2, B1, C1 or in none; B2 starts with any rows over the two lemmas.
SmallLemmas == {W(1), W(9)}

SmallLevels ==
    {[level \in {"A1", "A2", "B1", "C1"} |->
         (IF h1 = level THEN <<Row(W(1), "x")>> ELSE <<>>) \o
         (IF h9 = level THEN <<Row(W(9), "x")>> ELSE <<>>)] :
        h1 \in {"", "A1", "A2", "B1", "C1"}, h9 \in {"", "A1", "A2", "B1", "C1"}}

WithB2(others, b2) ==
    [level \in Levels |-> IF level = "B2" THEN b2 ELSE others[level]]

InitB2 ==
    /\ \/ /\ master = ScenarioMaster
          /\ \E b2 \in SeqsUpTo({Row(w, t) : w \in ScenarioB2Lemmas, t \in Translations},
                                MaxB2Rows) :
                files = WithB2(ScenarioLevels, b2)
       \/ /\ master \in SUBSET SmallLemmas
          /\ \E others \in SmallLevels :
                \E b2 \in SeqsUpTo({Row(w, t) : w \in SmallLemmas, t \in Translations},
                                   MaxB2Rows) :
                    files = WithB2(others, b2)
    /\ run = NoRun
    /\ dfs = EmptyLexicon
    /\ op = "none"
    /\ out = <<>>
    /\ input = NoScript
    /\ output = NoScript

FixB2 ==
    /\ run.n < MaxRuns
    /\ \E r \in fix_b2(files, master) :
          /\ files' = r.files
          /\ run' = [n |-> run.n + 1, should_be_b2 |-> r.should_be_b2,
                     to_remove |-> r.to_remove, rc |-> r.rc]
    /\ UNCHANGED <<master, dfs, op, out, input, output>>

NextB2 == FixB2

SpecB2 == InitB2 /\ [][NextB2]_vars

-----------------------------------------------------------------------------
(* Properties of the VocabManager.  A step of Spec that sets op is one whole  *)
(* call; a property of a call is stated of every argument list whose call    *)
(* takes the object from the unprimed to the primed state.                   *)

\* the lemma sets of every two distinct levels are disjoint
PairwiseDisjoint(d) ==
    \A l1 \in Levels : \A i \in 1..Len(d[l1]) :
        \A l2 \in Levels \ {l1} : ~InLevel(d[l2], d[l1][i].lemma)

\* the whitespace characters of the model's alphabet
Whitespace == {" ", "\t"}

HasWhitespace(word) == \E i \in 1..Len(word) : word[i] \in Whitespace

\* no lemma of any level contains whitespace
NoWhitespace(d) ==
    \A level \in Levels : \A i \in 1..Len(d[level]) : ~HasWhitespace(d[level][i].lemma)

HasRow(df, r) == \E i \in 1..Len(df) : df[i] = r

\* the rows of df as a bag: row -> number of occurrences
RowCount(df, r) == Cardinality({i \in 1..Len(df) : df[i] = r})

SameRows(df1, df2) ==
    \A r \in {df1[i] : i \in 1..Len(df1)} \cup {df2[i] : i \in 1..Len(df2)} :
        RowCount(df1, r) = RowCount(df2, r)

Contains(seq, x) == \E i \in 1..Len(seq) : seq[i] = x

NonEmptyLevels(d) == {level \in Levels : d[level] # <<>>}

\* C1: from pairwise disjoint level lemma sets, a call of add_word, move_word or
\* remove_word (any arguments) leaves the lemma sets of every two distinct
\* levels disjoint, in memory and on disk; so they are disjoint after any
\* finite sequence of such calls.
C1_DisjointKept ==
    [][op' \in {"add", "move", "remove"} =>
          /\ PairwiseDisjoint(dfs) => PairwiseDisjoint(dfs')
          /\ PairwiseDisjoint(files) => PairwiseDisjoint(files')]_vars

\* C1 witness: add_word has run to its end on a lexicon with two populated,
\* disjoint levels.
C1_Witness ==
    /\ op = "add"
    /\ \E level \in Levels : out = <<Msg("Added", level)>>
    /\ Cardinality(NonEmptyLevels(dfs)) = 2
    /\ PairwiseDisjoint(dfs)

\* C2 (as claimed): add_word(level, lemma, translation) with a lemma that is in
\* no level and has no whitespace succeeds, and then the level holds the row
\* (lemma, translation) in memory and on disk, find_word(lemma) = [level], and
\* every other level is unchanged.
C2_AddAdds ==
    [][\A level \in Levels, word \in Words, translation \in Translations :
          ( /\ op' = "add"
            /\ find_word(dfs, word) = <<>>
            /\ ~HasWhitespace(word)
            /\ Left \in add_word(Cur, level, word, translation) )
          =>
          ( /\ out' = <<Msg("Added", level)>>
            /\ HasRow(dfs'[level], Row(word, translation))
            /\ HasRow(files'[level], Row(word, translation))
            /\ find_word(dfs', word) = <<level>>
            /\ \A other \in Levels \ {level} :
                  dfs'[other] = dfs[other] /\ files'[other] = files[other] )]_vars

\* C3 (as claimed): move_word(lemma, target) for a lemma that is in some level
\* and not in the target leaves the lemma in the target level only, with the
\* translation of its first source level, and every other entry unchanged.
C3_MoveMoves ==
    [][\A word \in Words, target \in Levels :
          ( /\ op' = "move"
            /\ find_word(dfs, word) # <<>>
            /\ ~Contains(find_word(dfs, word), target)
            /\ Left \in move_word(Cur, word, target) )
          =>
          ( LET src == dfs[find_word(dfs, word)[1]]
                translation == src[FirstIdx(src, word)].translation
            IN  /\ find_word(dfs', word) = <<target>>
                /\ HasRow(dfs'[target], Row(word, translation))
                /\ \A level \in Levels :
                      SameRows(DropWord(dfs'[level], word),
                               DropWord(dfs[level], word)) )]_vars

\* C4: move_word(lemma, target) with the lemma already in the target level is
\* rejected, and every level is as before the call, in memory and on disk.
C4_MoveIntoTargetRejected ==
    [][\A word \in Words, target \in Levels :
          ( /\ op' = "move"
            /\ Contains(find_word(dfs, word), target)
            /\ Left \in move_word(Cur, word, target) )
          =>
          ( /\ out' = <<Msg("MoveAborted", target)>>
            /\ dfs' = dfs
            /\ files' = files )]_vars

\* C4 witness: a move was aborted whose target is the only populated level,
\* so the only level of the lemma.
C4_Witness ==
    /\ op = "move"
    /\ \E target \in Levels :
          /\ out = <<Msg("MoveAborted", target)>>
          /\ NonEmptyLevels(dfs) = {target}

\* C5 (as claimed): update_word with a new_word that exists in some level is
\* rejected and changes no lemma and no translation of any level, in memory or
\* on disk, also when a new_translation is given.
C5_RenameConflictChangesNothing ==
    [][\A word \in Words, new_translation \in OptTranslations, new_word \in OptWords :
          ( /\ op' = "update"
            /\ TruthyWord(new_word)
            /\ find_word(dfs, new_word[1]) # <<>>
            /\ Left = update_word(Cur, word, new_translation, new_word) )
          =>
          ( dfs' = dfs /\ files' = files )]_vars

\* C6 (as claimed): update_word for a lemma that is in several levels, with a
\* new_word that is in no level (and/or a new_translation), renames the lemma
\* and sets the translation in every level that held it.
C6_UpdateAppliesToAllLevels ==
    [][\A word \in Words, new_translation \in OptTranslations, new_word \in OptWords :
          ( /\ op' = "update"
            /\ Len(find_word(dfs, word)) >= 2
            /\ TruthyWord(new_word) \/ TruthyTranslation(new_translation)
            /\ TruthyWord(new_word) => find_word(dfs, new_word[1]) = <<>>
            /\ Left = update_word(Cur, word, new_translation, new_word) )
          =>
          ( LET found == find_word(dfs, word)
                lemma == IF TruthyWord(new_word) THEN new_word[1] ELSE word
            IN  /\ TruthyWord(new_word) => find_word(dfs', word) = <<>>
                /\ \A k \in 1..Len(found) :
                      /\ InLevel(dfs'[found[k]], lemma)
                      /\ TruthyTranslation(new_translation) =>
                            HasRow(dfs'[found[k]], Row(lemma, new_translation[1])) )]_vars

C8_NoWhitespaceKept ==
    [][NoWhitespace(dfs) =>
          /\ NoWhitespace(dfs')
          /\ NoWhitespace(files')
          /\ \A word \in Words, new_translation \in OptTranslations, new_word \in OptWords :
                ( /\ op' = "update"
                  /\ TruthyWord(new_word)
                  /\ HasWhitespace(new_word[1])
                  /\ Left = update_word(Cur, word, new_translation, new_word) )
                => ( dfs' = dfs /\ files' = files )]_vars

-----------------------------------------------------------------------------
(* Properties of fix_b2 *)

Scenario ==
    /\ master = ScenarioMaster
    /\ \A level \in {"A1", "A2", "B1", "C1"} : files[level] = ScenarioLevels[level]

\* C9: the target fix_b2 computes for B2 is the Master Set minus the union of
\* the lemma sets of A1, A2, B1 and C1, whatever B2 held: in the scenario
\* (Master w1..w10, A1 = {w1,w2}, A2 = {w3,w4}, B1 = {w5,w6}, C1 = {w7,w8}) it
\* is {w9, w10} for every prior B2.
C9_TargetIsMasterMinusOthers ==
    run.n > 0 =>
        /\ run.should_be_b2 =
              master \ (LemmaSet(files["A1"]) \cup LemmaSet(files["A2"]) \cup
                        LemmaSet(files["B1"]) \cup LemmaSet(files["C1"]))
        /\ Scenario => run.should_be_b2 = {W(9), W(10)}

\* C9 witness: fix_b2 has run once in the scenario on a B2 that held lemmas
\* outside the target.
C9_Witness ==
    /\ run.n = 1
    /\ Scenario
    /\ run.to_remove # {}
    /\ run.should_be_b2 = {W(9), W(10)}

\* C10 (as claimed): after a fix_b2 run the lemma set of B2 is the computed
\* target set; rows outside the target are dropped, kept rows keep their
\* translation, and every target lemma that was not in B2 is inserted with an
\* empty translation.
C10_ResultIsTarget ==
    [][run'.n = run.n + 1 =>
          /\ LemmaSet(files'["B2"]) = run'.should_be_b2
          /\ \A i \in 1..Len(files["B2"]) :
                files["B2"][i].lemma \in run'.should_be_b2 =>
                    RowCount(files'["B2"], files["B2"][i]) =
                        RowCount(files["B2"], files["B2"][i])
          /\ \A w \in run'.should_be_b2 \ LemmaSet(files["B2"]) :
                HasRow(files'["B2"], Row(w, ""))]_vars


\* C11 (as claimed): a fix_b2 run that follows another one, with the Master
\* Set and the other four levels unchanged, has nothing to remove (current
\* minus target is empty) and nothing to add (target minus current is empty),
\* and rewrites B2 with identical content.
C11_SecondRunChangesNothing ==
    [][(run.n >= 1 /\ run'.n = run.n + 1) =>
          /\ run'.to_remove = {}
          /\ run'.should_be_b2 \ LemmaSet(files["B2"]) = {}
          /\ files' = files]_vars

\* C12: after a fix_b2 run the return code is 0 exactly when the lemma set of
\* the written B2 equals the target (Master Set minus the lemmas of A1, A2, B1
\* and C1), and non-zero exactly when it differs.
C12_ReturnCodeTellsDivergence ==
    run.n >= 1 =>
        LET target == (((master \ LemmaSet(files["A1"])) \ LemmaSet(files["A2"]))
                          \ LemmaSet(files["B1"])) \ LemmaSet(files["C1"])
        IN  /\ run.rc = 0 <=> LemmaSet(files["B2"]) = target
            /\ run.rc # 0 <=> LemmaSet(files["B2"]) # target

\* C12 witness: a run has returned non-zero on the reconciliation scenario,
\* where the written B2 lacks a lemma of the target.
C12_Witness ==
    /\ Scenario
    /\ run.n >= 1
    /\ run.rc = 1
    /\ run.should_be_b2 \ LemmaSet(files["B2"]) # {}

-----------------------------------------------------------------------------
(* Python str, on sequences of characters *)

LowerLetters ==
    <<"a", "b", "c", "d", "e", "f", "g", "h", "i", "j", "k", "l", "m", "n",
      "o", "p", "q", "r", "s", "t", "u", "v", "w", "x", "y", "z", "ä", "ö",
      "ü">>

UpperLetters ==
    <<"A", "B", "C", "D", "E", "F", "G", "H", "I", "J", "K", "L", "M", "N",
      "O", "P", "Q", "R", "S", "T", "U", "V", "W", "X", "Y", "Z", "Ä", "Ö",
      "Ü">>

\* c.lower() of one character
LowerChar(c) ==
    IF \E i \in 1..Len(UpperLetters) : UpperLetters[i] = c
    THEN LowerLetters[CHOOSE i \in 1..Len(UpperLetters) : UpperLetters[i] = c]
    ELSE c

\* c.upper() of one character, a string: the upper case of the sharp s is the
\* two letters SS
UpperChar(c) ==
    IF c = "ß"
    THEN <<"S", "S">>
    ELSE IF \E i \in 1..Len(LowerLetters) : LowerLetters[i] = c
         THEN <<UpperLetters[CHOOSE i \in 1..Len(LowerLetters) : LowerLetters[i] = c]>>
         ELSE <<c>>

\* c.islower() of one character
islower(c) == c = "ß" \/ \E i \in 1..Len(LowerLetters) : LowerLetters[i] = c

\* s.lower()
lower(s) == [i \in 1..Len(s) |-> LowerChar(s[i])]

\* s.upper()
RECURSIVE upper(_)
upper(s) == IF s = <<>> THEN <<>> ELSE UpperChar(Head(s)) \o upper(Tail(s))

\* s.strip(): s without its leading and trailing whitespace
RECURSIVE lstrip(_)
lstrip(s) == IF s # <<>> /\ Head(s) \in {" ", "\t"} THEN lstrip(Tail(s)) ELSE s

RECURSIVE rstrip(_)
rstrip(s) ==
    IF s # <<>> /\ s[Len(s)] \in {" ", "\t"} THEN rstrip(SubSeq(s, 1, Len(s) - 1)) ELSE s

strip(s) == rstrip(lstrip(s))

\* s.startswith(prefix)
startswith(s, prefix) ==
    Len(prefix) <= Len(s) /\ SubSeq(s, 1, Len(prefix)) = prefix

\* s.endswith(suffix)
endswith(s, suffix) ==
    Len(suffix) <= Len(s) /\ SubSeq(s, Len(s) - Len(suffix) + 1, Len(s)) = suffix

\* old in s
contains(s, old) ==
    \E i \in 1..(Len(s) - Len(old) + 1) : SubSeq(s, i, i + Len(old) - 1) = old

\* s.replace(old, new): every occurrence of old, found from the left without
\* overlap, becomes new
RECURSIVE replace(_, _, _)
replace(s, old, new) ==
    IF Len(s) < Len(old)
    THEN s
    ELSE IF SubSeq(s, 1, Len(old)) = old
         THEN new \o replace(SubSeq(s, Len(old) + 1, Len(s)), old, new)
         ELSE <<Head(s)>> \o replace(Tail(s), old, new)

-----------------------------------------------------------------------------
(* sync_a2_with_goethe.py: A2.csv merged with the official word list.  A row  *)
(* of A2.csv as csv.DictReader gives it has a lemma and a translation that is *)
(* None when the line has no second field.                                    *)

PLACEHOLDER_PREFIX == <<"[", "T", "O", "D", "O">>

\* {row['German_Lemma'].strip().lower(): row for row in reader}: of the rows
\* with the same key the last one stays
current_a2_of(rows) ==
    LET key(i) == lower(strip(rows[i].lemma))
        last(k) == CHOOSE i \in 1..Len(rows) :
                      /\ key(i) = k
                      /\ \A j \in (i + 1)..Len(rows) : key(j) # k
    IN  [k \in {key(i) : i \in 1..Len(rows)} |-> rows[last(k)]]

\* [line.strip() for line in f if line.strip()]
RECURSIVE goethe_words_of(_)
goethe_words_of(lines) ==
    IF lines = <<>>
    THEN <<>>
    ELSE (IF strip(Head(lines)) # <<>> THEN <<strip(Head(lines))>> ELSE <<>>)
             \o goethe_words_of(Tail(lines))

\* sorted(words, key=str.lower): ascending keys, words with equal keys in
\* their order in the list (the sort is stable)
RECURSIVE sorted_by_lower(_)
sorted_by_lower(words) ==
    IF words = <<>>
    THEN <<>>
    ELSE LET n == Len(words)
             front == sorted_by_lower(SubSeq(words, 1, n - 1))
             w == words[n]
             before == Cardinality({i \in 1..(n - 1) :
                                       ~StrLess(lower(w), lower(front[i]))})
         IN  SubSeq(front, 1, before) \o <<w>> \o SubSeq(front, before + 1, n - 1)

\* the row the loop appends for one word of the list
new_a2_row(goethe_word, current_a2) ==
    LET word_lower == lower(goethe_word)
    IN  IF word_lower \in DOMAIN current_a2
        THEN LET given == current_a2[word_lower].translation
                 trans == IF given # None /\ given[1] # <<>> THEN strip(given[1]) ELSE <<>>
             IN  IF trans # <<>> /\ ~startswith(trans, PLACEHOLDER_PREFIX)
                 THEN Row(goethe_word, trans)
                 ELSE Row(goethe_word, <<>>)
        ELSE Row(goethe_word, <<>>)

\* main(): the return code and the rows written to A2.csv; nothing is written
\* when the word list file does not exist (goethe_lines = None)
sync_main(a2_rows, goethe_lines) ==
    IF goethe_lines = None
    THEN [rc |-> 1, written |-> FALSE, new_a2 |-> <<>>]
    ELSE LET current_a2 == current_a2_of(a2_rows)
             words == sorted_by_lower(goethe_words_of(goethe_lines[1]))
         IN  [rc |-> 0, written |-> TRUE,
              new_a2 |-> [i \in 1..Len(words) |-> new_a2_row(words[i], current_a2)]]

\* rows of A2.csv before the merge
MaxA2Rows == 2

\* lines of the word list file
MaxGoetheLines == 2

SyncLemmas == {<<"H", "a", "u", "s">>, <<"h", "a", "u", "s">>, <<" ", "H", "a", "u", "s">>, <<"B", "a", "u", "m">>}

SyncTranslations ==
    {None, Some(<<>>), Some(<<"c", "a", "s", "a">>), Some(<<" ", "c", "a", "s", "a", " ">>),
     Some(<<"[", "T", "O", "D", "O", ":", " ", "c", "a", "s", "a", "]">>)}

SyncLines == {<<"H", "a", "u", "s">>, <<"h", "a", "u", "s", " ">>, <<"A", "u", "t", "o">>, <<" ">>}

InitSync ==
    /\ \E a2 \in SeqsUpTo({Row(w, t) : w \in SyncLemmas, t \in SyncTranslations},
                          MaxA2Rows) :
          \E goethe \in {None} \cup {Some(ls) : ls \in SeqsUpTo(SyncLines, MaxGoetheLines)} :
              input = [a2 |-> a2, goethe |-> goethe]
    /\ output = <<>>
    /\ files = EmptyLexicon
    /\ dfs = EmptyLexicon
    /\ op = "none"
    /\ out = <<>>
    /\ master = {}
    /\ run = NoRun

\* one run of the script
Sync ==
    /\ output = <<>>
    /\ output' = <<sync_main(input.a2, input.goethe)>>
    /\ UNCHANGED <<input, dfs, files, op, out, master, run>>

NextSync == Sync

SpecSync == InitSync /\ [][NextSync]_vars

\* the rows of A2.csv whose lemma equals word but for case (and surrounding
\* whitespace) and whose translation (surrounding whitespace aside) is
\* non-empty and does not start with the placeholder prefix
CuratedRows(a2_rows, word) ==
    {i \in 1..Len(a2_rows) :
        /\ lower(strip(a2_rows[i].lemma)) = lower(word)
        /\ a2_rows[i].translation # None
        /\ strip(a2_rows[i].translation[1]) # <<>>
        /\ ~startswith(strip(a2_rows[i].translation[1]), PLACEHOLDER_PREFIX)}

\* C13 (as claimed): after the merge the lemmas of the new A2 are exactly the
\* words of the external list, as the list spells them; a word has a
\* translation if and only if the current A2 holds, for a lemma equal to it
\* but for case, a translation that is non-empty and does not start with the
\* placeholder prefix, and the translation it has is then such a local
\* translation; every other word has the empty translation.
C13_MergeKeepsCuratedTranslations ==
    (output # <<>> /\ output[1].written) =>
        LET new_a2 == output[1].new_a2
            listed == {strip(input.goethe[1][i]) : i \in 1..Len(input.goethe[1])} \ {<<>>}
        IN  /\ LemmaSet(new_a2) = listed
            /\ \A i \in 1..Len(new_a2) :
                  LET curated == CuratedRows(input.a2, new_a2[i].lemma)
                  IN  /\ new_a2[i].translation # <<>> <=> curated # {}
                      /\ new_a2[i].translation # <<>> =>
                            \E j \in curated :
                                new_a2[i].translation = strip(input.a2[j].translation[1])

-----------------------------------------------------------------------------
(* fix_csvs.py: the correction of one row.  A cell of a CSV file is the text  *)
(* between the commas; a value read by pandas is None for NaN or Some(text).  *)

TYPO_FIXES ==
    (<<"a", "i", "t">> :> <<"a", "l", "t">>) @@
    (<<"a", "i", "t", "e", "r">> :> <<"A", "l", "t", "e", "r">>) @@
    (<<"a", "b", "e", "r", "j", "e", "t", "z", "t">> :> <<"a", "b", "e", "r", " ", "j", "e", "t", "z", "t">>) @@
    (<<"d", "o", "i", "i", "a", "r">> :> <<"D", "o", "l", "l", "a", "r">>) @@
    (<<"e", "n", "d", "i", "i", "i", "c", "h">> :> <<"e", "n", "d", "l", "i", "c", "h">>) @@
    (<<"e", "n", "d", "i", "i", "c", "h">> :> <<"e", "n", "d", "l", "i", "c", "h">>) @@
    (<<"f", "r", "u", "e", "h", "l", "i", "n", "g">> :> <<"F", "r", "ü", "h", "l", "i", "n", "g">>) @@
    (<<"f", "u", "e", "r">> :> <<"f", "ü", "r">>) @@
    (<<"f", "u", "e", "s", "s", "e">> :> <<"F", "ü", "ß", "e">>) @@
    (<<"f", "u", "e", "s", "s", "e", "n">> :> <<"F", "ü", "ß", "e", "n">>) @@
    (<<"g", "e", "f", "a", "e", "h", "r", "d", "e", "t">> :> <<"g", "e", "f", "ä", "h", "r", "d", "e", "t">>) @@
    (<<"g", "e", "f", "a", "e", "n", "g", "n", "i", "s">> :> <<"G", "e", "f", "ä", "n", "g", "n", "i", "s">>) @@
    (<<"g", "e", "f", "a", "e", "l", "l", "t">> :> <<"g", "e", "f", "ä", "l", "l", "t">>) @@
    (<<"g", "e", "h", "o", "e", "r", "t">> :> <<"g", "e", "h", "ö", "r", "t">>) @@
    (<<"g", "r", "u", "e", "n">> :> <<"g", "r", "ü", "n">>) @@
    (<<"g", "r", "u", "e", "s", "s", "e">> :> <<"G", "r", "ü", "ß", "e">>) @@
    (<<"h", "a", "l", "l", "o">> :> <<"H", "a", "l", "l", "o">>) @@
    (<<"h", "o", "e", "r", "e", "n">> :> <<"h", "ö", "r", "e", "n">>) @@
    (<<"k", "o", "e", "n", "n", "e", "n">> :> <<"k", "ö", "n", "n", "e", "n">>) @@
    (<<"k", "o", "e", "n", "i", "g">> :> <<"K", "ö", "n", "i", "g">>) @@
    (<<"k", "o", "e", "r", "p", "e", "r">> :> <<"K", "ö", "r", "p", "e", "r">>) @@
    (<<"k", "u", "e", "c", "h", "e">> :> <<"K", "ü", "c", "h", "e">>) @@
    (<<"k", "u", "e", "h", "l">> :> <<"k", "ü", "h", "l">>) @@
    (<<"k", "u", "e", "n", "s", "t", "l", "e", "r">> :> <<"K", "ü", "n", "s", "t", "l", "e", "r">>) @@
    (<<"m", "a", "e", "d", "c", "h", "e", "n">> :> <<"M", "ä", "d", "c", "h", "e", "n">>) @@
    (<<"m", "a", "e", "n", "n", "e", "r">> :> <<"M", "ä", "n", "n", "e", "r">>) @@
    (<<"m", "o", "e", "c", "h", "t", "e">> :> <<"m", "ö", "c", "h", "t", "e">>) @@
    (<<"m", "o", "e", "g", "e", "n">> :> <<"m", "ö", "g", "e", "n">>) @@
    (<<"m", "u", "e", "s", "s", "e", "n">> :> <<"m", "ü", "s", "s", "e", "n">>) @@
    (<<"m", "u", "e", "t", "t", "e", "r">> :> <<"M", "ü", "t", "t", "e", "r">>) @@
    (<<"n", "a", "t", "u", "e", "r", "l", "i", "c", "h">> :> <<"n", "a", "t", "ü", "r", "l", "i", "c", "h">>) @@
    (<<"o", "e", "f", "f", "n", "e", "n">> :> <<"ö", "f", "f", "n", "e", "n">>) @@
    (<<"o", "e", "l">> :> <<"Ö", "l">>) @@
    (<<"o", "e", "s", "t", "e", "r", "r", "e", "i", "c", "h">> :> <<"Ö", "s", "t", "e", "r", "r", "e", "i", "c", "h">>) @@
    (<<"p", "l", "o", "e", "z", "l", "i", "c", "h">> :> <<"p", "l", "ö", "t", "z", "l", "i", "c", "h">>) @@
    (<<"s", "p", "a", "e", "t">> :> <<"s", "p", "ä", "t">>) @@
    (<<"s", "p", "a", "e", "t", "e", "r">> :> <<"s", "p", "ä", "t", "e", "r">>) @@
    (<<"s", "c", "h", "o", "e", "n">> :> <<"s", "c", "h", "ö", "n">>) @@
    (<<"s", "c", "h", "u", "e", "l", "e", "r">> :> <<"S", "c", "h", "ü", "l", "e", "r">>) @@
    (<<"t", "u", "e", "r">> :> <<"T", "ü", "r">>) @@
    (<<"u", "e", "b", "e", "r">> :> <<"ü", "b", "e", "r">>) @@
    (<<"u", "e", "b", "e", "r", "a", "l", "l">> :> <<"ü", "b", "e", "r", "a", "l", "l">>) @@
    (<<"u", "e", "b", "u", "n", "g">> :> <<"Ü", "b", "u", "n", "g">>) @@
    (<<"w", "a", "e", "h", "r", "e", "n", "d">> :> <<"w", "ä", "h", "r", "e", "n", "d">>) @@
    (<<"w", "a", "e", "r", "e">> :> <<"w", "ä", "r", "e">>) @@
    (<<"w", "u", "e", "r", "d", "e">> :> <<"w", "ü", "r", "d", "e">>) @@
    (<<"w", "u", "e", "n", "s", "c", "h", "e", "n">> :> <<"w", "ü", "n", "s", "c", "h", "e", "n">>) @@
    (<<"z", "a", "e", "h", "n", "e">> :> <<"Z", "ä", "h", "n", "e">>) @@
    (<<"z", "u", "r", "u", "e", "c", "k">> :> <<"z", "u", "r", "ü", "c", "k">>) @@
    (<<"z", "w", "o", "e", "l", "f">> :> <<"z", "w", "ö", "l", "f">>)

\* pandas.read_csv on one cell: the empty cell and the texts pandas takes for
\* missing values are read as NaN
NaValues ==
    {<<>>, <<"N", "A">>, <<"N", "a", "N">>, <<"n", "a", "n">>, <<"n", "u", "l", "l">>, <<"N", "U", "L", "L">>}

read_csv_cell(text) == IF text \in NaValues THEN None ELSE Some(text)

\* str(value) of a value read by pandas: str(nan) is 'nan'
pystr(value) == IF value = None THEN <<"n", "a", "n">> ELSE value[1]

replacements ==
    <<<<<<"a", "e">>, <<"ä">>>>, <<<<"u", "e">>, <<"ü">>>>, <<<<"o", "e">>, <<"ö">>>>, <<<<"s", "s">>, <<"ß">>>>>>

\* one round of the candidate loop: every candidate is kept and, when it
\* contains old, followed by itself with every old replaced
RECURSIVE next_candidates(_, _, _)
next_candidates(candidates, old, new) ==
    IF candidates = <<>>
    THEN <<>>
    ELSE LET cand == Head(candidates)
         IN  <<cand>> \o (IF contains(cand, old) THEN <<replace(cand, old, new)>> ELSE <<>>)
                 \o next_candidates(Tail(candidates), old, new)

\* the candidates after the rounds k, k + 1, ... of the replacements
RECURSIVE umlaut_candidates(_, _)
umlaut_candidates(candidates, k) ==
    IF k > Len(replacements)
    THEN candidates
    ELSE umlaut_candidates(next_candidates(candidates, replacements[k][1], replacements[k][2]),
                           k + 1)

\* cand[0].upper() + cand[1:] if cand else cand
capitalized_of(cand) == IF cand # <<>> THEN UpperChar(cand[1]) \o Tail(cand) ELSE cand

restore_umlauts(word, master_set) ==
    LET candidates == umlaut_candidates(<<word>>, 1)
        hits == {i \in 1..Len(candidates) :
                    candidates[i] \in master_set \/ capitalized_of(candidates[i]) \in master_set}
    IN  IF hits = {}
        THEN word
        ELSE LET cand == candidates[CHOOSE i \in hits : \A j \in hits : i <= j]
             IN  IF cand \in master_set THEN cand ELSE capitalized_of(cand)

\* steps 1 to 3 of the row loop on the stripped lemma: Some(lemma), or None
\* when lemma[0] raises IndexError on the empty lemma
fix_csvs_lemma(lemma, master_lemmas) ==
    LET typo_fixed == IF lower(lemma) \in DOMAIN TYPO_FIXES
                      THEN TYPO_FIXES[lower(lemma)]
                      ELSE lemma
        restored == IF typo_fixed \notin master_lemmas
                    THEN restore_umlauts(typo_fixed, master_lemmas)
                    ELSE typo_fixed
    IN  IF restored = <<>>
        THEN None
        ELSE IF islower(restored[1]) /\ capitalized_of(restored) \in master_lemmas
             THEN Some(capitalized_of(restored))
             ELSE Some(restored)

\* the row appended to new_rows for a row of the file, cells as text: Some(row),
\* or None when the row raises and the file is given up
fix_csvs_row(row, master_lemmas) ==
    LET lemma == strip(pystr(read_csv_cell(row.lemma)))
        trans == strip(pystr(read_csv_cell(row.translation)))
        fixed == fix_csvs_lemma(lemma, master_lemmas)
    IN  IF fixed = None THEN None ELSE Some(Row(fixed[1], trans))

-----------------------------------------------------------------------------
(* fix_capitalization.py *)

LOWERCASE_PATTERNS ==
    {<<"a", "b">>, <<"a", "b", "e", "r">>, <<"a", "b", "f", "a", "h", "r", "e", "n">>,
     <<"a", "b", "f", "l", "i", "e", "g", "e", "n">>, <<"a", "b", "g", "e", "b", "e", "n">>,
     <<"a", "b", "h", "o", "l", "e", "n">>,
     <<"a", "b", "s", "c", "h", "l", "i", "e", "ß", "e", "n">>, <<"a", "k", "t", "i", "v">>,
     <<"a", "k", "t", "u", "e", "l", "l">>, <<"a", "l", "l", "e">>,
     <<"a", "l", "l", "e", "i", "n">>, <<"a", "l", "l", "e", "s">>, <<"a", "l", "s">>,
     <<"a", "l", "s", "o">>, <<"a", "l", "t">>, <<"a", "n">>,
     <<"a", "n", "b", "i", "e", "t", "e", "n">>, <<"a", "n", "d", "e", "r", "e", "n">>,
     <<"a", "n", "d", "e", "r", "s">>, <<"a", "n", "f", "a", "n", "g", "e", "n">>,
     <<"a", "n", "k", "o", "m", "m", "e", "n">>, <<"a", "n", "r", "u", "f", "e", "n">>,
     <<"a", "n", "t", "w", "o", "r", "t", "e", "n">>, <<"a", "r", "b", "e", "i", "t", "e", "n">>,
     <<"a", "u", "c", "h">>, <<"a", "u", "f">>, <<"a", "u", "s">>, <<"b", "e", "i">>,
     <<"b", "e", "k", "a", "n", "n", "t">>, <<"b", "e", "s", "t", "e", "l", "l", "e", "n">>,
     <<"b", "i", "s">>, <<"b", "l", "e", "i", "b", "e", "n">>,
     <<"b", "r", "a", "u", "c", "h", "e", "n">>, <<"b", "r", "i", "n", "g", "e", "n">>,
     <<"d", "a">>, <<"d", "a", "b", "e", "i">>, <<"d", "a", "f", "ü", "r">>,
     <<"d", "a", "g", "e", "g", "e", "n">>, <<"d", "a", "n", "n">>, <<"d", "a", "r", "a", "n">>,
     <<"d", "a", "r", "a", "u", "f">>, <<"d", "a", "r", "ü", "b", "e", "r">>,
     <<"d", "a", "r", "u", "m">>, <<"d", "a", "s", "s">>, <<"d", "a", "z", "u">>,
     <<"d", "e", "i", "n">>, <<"d", "e", "m">>, <<"d", "e", "n">>, <<"d", "e", "r">>,
     <<"d", "e", "s", "h", "a", "l", "b">>, <<"d", "e", "u", "t", "l", "i", "c", "h">>,
     <<"d", "i", "c", "h">>, <<"d", "i", "e">>, <<"d", "i", "e", "s">>, <<"d", "i", "r">>,
     <<"d", "o", "c", "h">>, <<"d", "o", "r", "t">>, <<"d", "r", "a", "n">>,
     <<"d", "r", "a", "u", "f">>, <<"d", "r", "i", "n", "n", "e", "n">>,
     <<"d", "r", "ü", "b", "e", "r">>, <<"d", "u">>, <<"d", "u", "m", "m">>,
     <<"d", "u", "n", "k", "e", "l">>, <<"d", "ü", "n", "n">>, <<"d", "u", "r", "c", "h">>,
     <<"d", "ü", "r", "f", "e", "n">>, <<"e", "c", "h", "t">>, <<"e", "h", "r", "e", "n">>,
     <<"e", "i", "g", "e", "n">>, <<"e", "i", "g", "e", "n", "t", "l", "i", "c", "h">>,
     <<"e", "i", "n">>, <<"e", "i", "n", "i", "g">>,
     <<"e", "i", "n", "p", "a", "c", "k", "e", "n">>,
     <<"e", "i", "n", "t", "r", "a", "g", "e", "n">>,
     <<"e", "i", "n", "v", "e", "r", "s", "t", "a", "n", "d", "e", "n">>, <<"e", "r">>,
     <<"e", "r", "k", "ä", "l", "t", "e", "t">>, <<"e", "r", "l", "a", "u", "b", "t">>,
     <<"e", "s">>, <<"e", "s", "s", "e", "n">>, <<"e", "u", "e", "r">>,
     <<"f", "a", "h", "r", "e", "n">>, <<"f", "a", "l", "l", "e", "n">>,
     <<"f", "e", "r", "t", "i", "g">>, <<"f", "i", "n", "d", "e", "n">>, <<"f", "i", "t">>,
     <<"f", "r", "a", "g", "e", "n">>, <<"f", "r", "e", "i">>, <<"f", "r", "ü", "h", "e", "r">>,
     <<"f", "ü", "h", "l", "e", "n">>, <<"f", "ü", "r">>, <<"g", "e", "b", "e", "n">>,
     <<"g", "e", "e", "h", "r", "t", "e">>, <<"g", "e", "h", "e", "n">>, <<"g", "e", "r", "n">>,
     <<"g", "e", "s", "t", "e", "r", "n">>, <<"g", "ü", "l", "t", "i", "g">>, <<"g", "u", "t">>,
     <<"h", "a", "b", "e", "n">>, <<"h", "a", "l", "t", "e", "n">>,
     <<"h", "ä", "n", "g", "e", "n">>, <<"h", "e", "i", "ß">>, <<"h", "e", "l", "f", "e", "n">>,
     <<"h", "e", "r">>, <<"h", "e", "u", "t", "e">>, <<"h", "i", "e", "r">>, <<"h", "i", "n">>,
     <<"h", "i", "n", "e", "i", "n">>, <<"h", "ö", "r", "e", "n">>, <<"i", "c", "h">>,
     <<"i", "h", "r">>, <<"i", "m">>, <<"i", "m", "m", "e", "r">>, <<"i", "n">>,
     <<"i", "n", "t", "e", "r", "e", "s", "s", "i", "e", "r", "e", "n">>, <<"i", "s", "t">>,
     <<"j", "a">>, <<"j", "e", "d", "e", "r">>, <<"j", "e", "m", "a", "n", "d">>,
     <<"j", "e", "t", "z", "t">>, <<"j", "u", "n", "g">>, <<"k", "a", "l", "t">>,
     <<"k", "a", "u", "f", "e", "n">>, <<"k", "e", "n", "n", "e", "n">>,
     <<"k", "l", "e", "i", "n">>, <<"k", "o", "m", "m", "e", "n">>,
     <<"k", "ö", "n", "n", "e", "n">>, <<"k", "ü", "m", "m", "e", "r", "n">>,
     <<"k", "u", "r", "z">>, <<"l", "a", "n", "g">>, <<"l", "a", "s", "s", "e", "n">>,
     <<"l", "a", "u", "f", "e", "n">>, <<"l", "e", "b", "e", "n">>, <<"l", "e", "g", "e", "n">>,
     <<"l", "e", "s", "e", "n">>, <<"l", "i", "e", "b", "e", "n">>,
     <<"l", "i", "e", "g", "e", "n">>, <<"m", "a", "c", "h", "e", "n">>, <<"m", "a", "l">>,
     <<"m", "a", "n">>, <<"m", "e", "h", "r">>, <<"m", "e", "i", "n">>,
     <<"m", "e", "i", "n", "e", "n">>, <<"m", "i", "t">>, <<"m", "ö", "c", "h", "t", "e", "n">>,
     <<"m", "ö", "g", "e", "n">>, <<"m", "ü", "s", "s", "e", "n">>, <<"n", "a", "c", "h">>,
     <<"n", "ä", "c", "h", "s", "t", "e">>, <<"n", "a", "h">>, <<"n", "e", "h", "m", "e", "n">>,
     <<"n", "e", "i", "n">>, <<"n", "e", "u">>, <<"n", "i", "c", "h", "t">>,
     <<"n", "i", "c", "h", "t", "s">>, <<"n", "o", "c", "h">>, <<"n", "ö", "t", "i", "g">>,
     <<"n", "u", "r">>, <<"o", "b">>, <<"o", "b", "e", "n">>, <<"o", "d", "e", "r">>,
     <<"o", "f", "t">>, <<"o", "h", "n", "e">>, <<"p", "a", "s", "s", "e", "n">>,
     <<"r", "e", "c", "h", "t">>, <<"r", "i", "c", "h", "t", "i", "g">>,
     <<"r", "u", "f", "e", "n">>, <<"s", "a", "g", "e", "n">>,
     <<"s", "c", "h", "a", "u", "e", "n">>, <<"s", "c", "h", "e", "i", "n", "e", "n">>,
     <<"s", "c", "h", "e", "n", "k", "e", "n">>, <<"s", "c", "h", "i", "c", "k", "e", "n">>,
     <<"s", "c", "h", "l", "a", "f", "e", "n">>, <<"s", "c", "h", "l", "e", "c", "h", "t">>,
     <<"s", "c", "h", "l", "i", "e", "ß", "l", "i", "c", "h">>,
     <<"s", "c", "h", "n", "e", "i", "d", "e", "n">>, <<"s", "c", "h", "n", "e", "l", "l">>,
     <<"s", "c", "h", "ö", "n">>, <<"s", "c", "h", "r", "e", "i", "b", "e", "n">>,
     <<"s", "c", "h", "w", "e", "r">>, <<"s", "e", "h", "e", "n">>, <<"s", "e", "h", "r">>,
     <<"s", "e", "i", "n">>, <<"s", "e", "i", "t">>, <<"s", "e", "t", "z", "e", "n">>,
     <<"s", "i", "c", "h">>, <<"s", "i", "e">>, <<"s", "i", "t", "z", "e", "n">>, <<"s", "o">>,
     <<"s", "o", "l", "l", "e", "n">>, <<"s", "o", "n", "d", "e", "r", "n">>,
     <<"s", "p", "ä", "t">>, <<"s", "p", "a", "z", "i", "e", "r", "e", "n">>,
     <<"s", "p", "i", "e", "l", "e", "n">>, <<"s", "p", "r", "e", "c", "h", "e", "n">>,
     <<"s", "t", "e", "h", "e", "n">>, <<"s", "t", "e", "l", "l", "e", "n">>,
     <<"s", "t", "r", "e", "i", "t", "e", "n">>, <<"t", "r", "a", "g", "e", "n">>,
     <<"t", "r", "e", "f", "f", "e", "n">>, <<"t", "r", "i", "n", "k", "e", "n">>,
     <<"t", "u", "n">>, <<"ü", "b", "e", "r">>, <<"u", "m">>,
     <<"u", "m", "z", "i", "e", "h", "e", "n">>, <<"u", "n", "d">>, <<"u", "n", "s">>,
     <<"u", "n", "s", "e", "r">>, <<"u", "n", "t", "e", "r">>,
     <<"u", "n", "t", "e", "r", "h", "a", "l", "t", "e", "n">>,
     <<"u", "n", "t", "e", "r", "w", "e", "g", "s">>,
     <<"v", "e", "r", "a", "b", "r", "e", "d", "e", "t">>,
     <<"v", "e", "r", "b", "o", "t", "e", "n">>,
     <<"v", "e", "r", "e", "i", "n", "b", "a", "r", "e", "n">>,
     <<"v", "e", "r", "l", "e", "t", "z", "e", "n">>,
     <<"v", "e", "r", "l", "i", "e", "b", "e", "n">>,
     <<"v", "e", "r", "s", "t", "e", "h", "e", "n">>, <<"v", "i", "e", "l">>, <<"v", "o", "m">>,
     <<"v", "o", "n">>, <<"v", "o", "r">>, <<"v", "o", "r", "s", "t", "e", "l", "l", "e", "n">>,
     <<"w", "a", "n", "n">>, <<"w", "a", "r", "m">>, <<"w", "a", "r", "t", "e", "n">>,
     <<"w", "a", "r", "u", "m">>, <<"w", "a", "s">>, <<"w", "a", "s", "c", "h", "e", "n">>,
     <<"w", "e", "g">>, <<"w", "e", "g", "e", "n">>, <<"w", "e", "h">>,
     <<"w", "e", "i", "t", "e", "r", "h", "e", "l", "f", "e", "n">>,
     <<"w", "e", "l", "c", "h", "e", "r">>, <<"w", "e", "n", "i", "g">>, <<"w", "e", "n", "n">>,
     <<"w", "e", "r">>, <<"w", "e", "r", "d", "e", "n">>, <<"w", "i", "c", "h", "t", "i", "g">>,
     <<"w", "i", "e">>, <<"w", "i", "e", "d", "e", "r">>, <<"w", "i", "n", "d", "i", "g">>,
     <<"w", "i", "r">>, <<"w", "i", "s", "s", "e", "n">>, <<"w", "o">>,
     <<"w", "o", "h", "n", "e", "n">>, <<"w", "o", "l", "l", "e", "n">>,
     <<"w", "o", "h", "e", "r">>, <<"w", "o", "h", "i", "n">>, <<"z", "u">>,
     <<"z", "u", "r", "ü", "c", "k">>,
     <<"z", "u", "r", "ü", "c", "k", "f", "a", "h", "r", "e", "n">>,
     <<"z", "u", "r", "ü", "c", "k", "g", "e", "b", "e", "n">>,
     <<"z", "u", "r", "ü", "c", "k", "g", "e", "h", "e", "n">>,
     <<"z", "u", "r", "ü", "c", "k", "k", "o", "m", "m", "e", "n">>,
     <<"z", "u", "r", "ü", "c", "k", "l", "a", "u", "f", "e", "n">>,
     <<"z", "u", "s", "a", "m", "m", "e", "n">>, <<"ä", "n", "d", "e", "r", "n">>,
     <<"ä", "r", "g", "e", "r", "n">>, <<"ü", "b", "e", "r", "w", "e", "i", "s", "e", "n">>}

LOWERCASE_SET == {lower(word) : word \in LOWERCASE_PATTERNS}

should_be_lowercase(word) ==
    LET word_lower == lower(word)
    IN  \/ word_lower \in LOWERCASE_SET
        \/ contains(word_lower, <<"s", "i", "c", "h", "-">>)
        \/ \E suffix \in {<<"-", "e", "n">>, <<"-", "e", "r", "n">>, <<"-", "i", "e", "r", "e", "n">>} : endswith(word_lower, suffix)
        \/ /\ \E suffix \in {<<"-", "e", "r">>, <<"-", "s", "t", "e">>, <<"-", "s", "t">>} : endswith(word_lower, suffix)
           /\ Len(word) > 4
           /\ LET base == IF endswith(word_lower, <<"e", "r">>)
                          THEN SubSeq(word_lower, 1, Len(word_lower) - 2)
                          ELSE SubSeq(word_lower, 1, Len(word_lower) - 3)
              IN  base \in LOWERCASE_SET

RECURSIVE fix_capitalization(_)
fix_capitalization(word) ==
    IF contains(word, <<"-">>)
    THEN IF startswith(lower(word), <<"s", "i", "c", "h", "-">>) THEN lower(word) ELSE word
    ELSE IF contains(word, <<"_">>)
         THEN LET first == CHOOSE i \in 1..Len(word) :
                              word[i] = "_" /\ \A j \in 1..(i - 1) : word[j] # "_"
              IN  fix_capitalization(SubSeq(word, 1, first - 1))
                      \o SubSeq(word, first, Len(word))
         ELSE IF should_be_lowercase(word)
              THEN lower(word)
              ELSE IF Len(word) > 1
                   THEN UpperChar(word[1]) \o lower(Tail(word))
                   ELSE upper(word)

\* main() on one row of A2.csv: only row['German_Lemma'] is assigned
fix_capitalization_row(row) == Row(fix_capitalization(row.lemma), row.translation)

-----------------------------------------------------------------------------
(* The correction scripts on one row: the row is read from a level file, the  *)
(* Master Set from master_lemmas.txt.  A script may be run again on the row   *)
(* it has written.  output is the sequence of the results so far, each        *)
(* [tool, result]; the result of a row correction is Some(row written), or    *)
(* None when the row raised.                                                  *)

\* length of the lemmas enumerated over NormAlphabet
MaxLemmaLen == 2

\* lemmas in the Master Set
MaxMasterSize == 2

\* runs of a correction script on a row and on its own results
NormPasses == 2

NormAlphabet == {"a", "e", "s", "ß", "ä", "S"}

\* lemma cells: every text of at most MaxLemmaLen characters of the alphabet
\* (the empty cell included), and words that meet the typo table, the digraph
\* replacements and the capitalisation rules
NormLemmaCells ==
    SeqsUpTo(NormAlphabet, MaxLemmaLen) \cup
    {<<"f", "u", "e", "r">>, <<"w", "u", "e", "r", "d", "e">>,
     <<"x", "y", "z", "a", "e">>,
     <<"f", "u", "s", "s", "b", "a", "l", "l", "s", "c", "h", "u", "s", "s">>,
     <<"e", "s", "s", "e", "n">>, <<"h", "a", "l", "l", "o">>,
     <<"H", "a", "l", "l", "o">>, <<"l", "a", "u", "f", "e", "n">>,
     <<"r", "e", "n", "n", "e", "n">>, <<"t", "i", "s", "c", "h">>,
     <<"H", "a", "u", "s">>, <<" ">>, <<"w", "e", "g", "_", "1">>,
     <<"S", "i", "c", "h", "-", "F", "r", "e", "u", "e", "n">>,
     <<"E", "-", "M", "a", "i", "l">>,
     <<"a", "b", "e", "r", "j", "e", "t", "z", "t">>}

NormTranslationCells == {<<>>, <<"c", "a", "s", "a">>, <<" ", "c", "a", "s", "a", " ">>}

MasterPool ==
    {<<"f", "ü", "r">>, <<"W", "ü", "r", "d", "e">>, <<"e", "s", "s", "e", "n">>,
     <<"E", "s", "s", "e", "n">>, <<"h", "a", "l", "l", "o">>,
     <<"F", "u", "ß", "b", "a", "l", "l", "s", "c", "h", "u", "s", "s">>, <<"ä">>,
     <<"S", "a">>}

Masters == {m \in SUBSET MasterPool : Cardinality(m) <= MaxMasterSize}

InitNorm ==
    /\ \E m \in Masters, lemma \in NormLemmaCells, translation \in NormTranslationCells :
          input = [master |-> m, row |-> Row(lemma, translation)]
    /\ output = <<>>
    /\ files = EmptyLexicon
    /\ dfs = EmptyLexicon
    /\ op = "none"
    /\ out = <<>>
    /\ master = {}
    /\ run = NoRun

\* the row a run of tool reads: the input row, or the row its last run wrote
RowToRead(tool) ==
    IF output = <<>> THEN input.row ELSE output[Len(output)].result[1]

\* tool can run: nothing has run yet, or only tool has and its last run wrote
\* a row
CanRun(tool) ==
    /\ Len(output) < NormPasses
    /\ output # <<>> => /\ output[1].tool = tool
                        /\ output[Len(output)].result # None

\* fix_csvs() on the row
FixCsvs ==
    /\ CanRun("fix_csvs")
    /\ output' = Append(output, [tool |-> "fix_csvs",
                                 result |-> fix_csvs_row(RowToRead("fix_csvs"), input.master)])
    /\ UNCHANGED <<input, dfs, files, op, out, master, run>>

\* fix_capitalization.main() on the row
FixCapitalization ==
    /\ CanRun("fix_capitalization")
    /\ output' = Append(output,
                        [tool |-> "fix_capitalization",
                         result |-> Some(fix_capitalization_row(RowToRead("fix_capitalization")))])
    /\ UNCHANGED <<input, dfs, files, op, out, master, run>>

\* restore_umlauts(word, master_set) called on the lemma as it stands in the row
RestoreUmlauts ==
    /\ output = <<>>
    /\ output' = <<[tool |-> "restore_umlauts",
                    result |-> restore_umlauts(input.row.lemma, input.master)]>>
    /\ UNCHANGED <<input, dfs, files, op, out, master, run>>

NextNorm == FixCsvs \/ FixCapitalization \/ RestoreUmlauts

SpecNorm == InitNorm /\ [][NextNorm]_vars

-----------------------------------------------------------------------------
(* Properties of the correction scripts *)

\* the lemma of the input row as fix_csvs reads it
LemmaRead == strip(pystr(read_csv_cell(input.row.lemma)))

\* C14 (as claimed): a correction script run a second time, on the row its
\* first run wrote, writes the same lemma; for the row correction of fix_csvs
\* and for fix_capitalization, every lemma and every Master Set.
C14_TwiceIsOnce ==
    Len(output) = 2 =>
        /\ output[2].result # None
        /\ output[2].result[1].lemma = output[1].result[1].lemma

\* C15 (as claimed): when the lemma of the row is a member of the Master Set,
\* the row correction of fix_csvs writes that lemma unchanged, whatever else
\* the Master Set contains.
C15_MasterLemmaUnchanged ==
    (Len(output) = 1 /\ output[1].tool = "fix_csvs" /\ LemmaRead \in input.master) =>
        /\ output[1].result # None
        /\ output[1].result[1].lemma = LemmaRead

\* the strings obtained from word by replacing any subset of the occurrences
\* of the digraphs, each occurrence replaced or not
RECURSIVE Substitutions(_)
Substitutions(word) ==
    IF word = <<>>
    THEN {<<>>}
    ELSE {<<Head(word)>> \o rest : rest \in Substitutions(Tail(word))} \cup
         UNION {{replacements[k][2] \o rest :
                    rest \in Substitutions(SubSeq(word, Len(replacements[k][1]) + 1, Len(word)))} :
                  k \in {j \in 1..Len(replacements) : startswith(word, replacements[j][1])}}

\* C16 (as claimed): restore_umlauts(word, master) returns a member of the
\* Master Set whenever some string of Substitutions(word) is in the Master Set
\* as it is or with its first character upper-cased, and returns word
\* unchanged when none is.
C16_EverySubstitutionConsidered ==
    (Len(output) = 1 /\ output[1].tool = "restore_umlauts") =>
        LET word == input.row.lemma
            matched == \E cand \in Substitutions(word) :
                          cand \in input.master \/ capitalized_of(cand) \in input.master
        IN  /\ matched => output[1].result \in input.master
            /\ ~matched => output[1].result = word

\* word ends in en, ern or ieren and is longer than 4 characters
VerbSuffix(word) ==
    /\ Len(word) > 4
    /\ \E suffix \in {<<"e", "n">>, <<"e", "r", "n">>, <<"i", "e", "r", "e", "n">>} :
          endswith(lower(word), suffix)

\* word ends in er, ste or st, is longer than 4 characters and is a known
\* lowercase word without that ending
ComparativeSuffix(word) ==
    /\ Len(word) > 4
    /\ \E suffix \in {<<"e", "r">>, <<"s", "t", "e">>, <<"s", "t">>} :
          /\ endswith(lower(word), suffix)
          /\ SubSeq(lower(word), 1, Len(word) - Len(suffix)) \in LOWERCASE_SET

\* C17 (as claimed): fix_capitalization returns a lemma without hyphen or
\* underscore that is longer than 4 characters and ends in en, ern or ieren
\* fully lowercase, in the known-lowercase list or not; it returns a lemma
\* with no non-noun signal with its first letter upper-cased and the rest
\* lower-cased.
C17_SuffixDecidesCase ==
    (/\ Len(output) = 1
     /\ output[1].tool = "fix_capitalization"
     /\ input.row.lemma # <<>>
     /\ ~contains(input.row.lemma, <<"-">>)
     /\ ~contains(input.row.lemma, <<"_">>)) =>
        LET word == input.row.lemma
            fixed == output[1].result[1].lemma
        IN  /\ VerbSuffix(word) => fixed = lower(word)
            /\ (/\ lower(word) \notin LOWERCASE_SET
                /\ ~VerbSuffix(word)
                /\ ~ComparativeSuffix(word)) =>
                  fixed = UpperChar(word[1]) \o lower(Tail(word))

\* C18 (as claimed): the translation a correction script writes for a row is
\* the translation of the row it read, also when that is empty or has
\* surrounding whitespace; fix_csvs and fix_capitalization.main.
C18_TranslationUntouched ==
    (Len(output) = 1 /\ output[1].tool \in {"fix_csvs", "fix_capitalization"}
                     /\ output[1].result # None) =>
        output[1].result[1].translation = input.row.translation

-----------------------------------------------------------------------------
(* check_quality_v2.py: the defects reported for one row of a level file.     *)
(* (check_quality.py, the earlier version of the script, has a try with no    *)
(* except and does not compile: it reports nothing.)                          *)

ENGLISH_STOPWORDS ==
    {<<"f", "i", "n", "d">>, <<"l", "o", "o", "k">>, <<"t", "h", "e", "r", "e">>,
     <<"w", "i", "t", "h">>, <<"n", "u", "m", "b", "e", "r">>, <<"w", "h", "i", "c", "h">>,
     <<"t", "h", "e", "m">>, <<"w", "r", "i", "t", "e">>, <<"b", "y">>, <<"o", "i", "l">>,
     <<"i", "f">>, <<"w", "o", "u", "l", "d">>, <<"c", "a", "l", "l">>, <<"c", "a", "n">>,
     <<"w", "h", "a", "t">>, <<"h", "e">>, <<"t", "h", "e", "y">>, <<"a", "n", "d">>, <<"u", "p">>,
     <<"w", "i", "l", "l">>, <<"w", "a", "s">>, <<"i">>, <<"t", "o">>, <<"o", "n">>,
     <<"i", "n", "t", "o">>, <<"i", "s">>, <<"t", "h", "a", "t">>, <<"m", "a", "n", "y">>,
     <<"l", "i", "k", "e">>, <<"m", "o", "r", "e">>, <<"h", "a", "d">>, <<"d", "o">>,
     <<"o", "u", "t">>, <<"g", "o">>, <<"c", "o", "u", "l", "d">>, <<"n", "o", "w">>,
     <<"h", "e", "r">>, <<"w", "h", "o">>, <<"n", "o", "t">>, <<"h", "o", "w">>, <<"f", "o", "r">>,
     <<"t", "h", "e", "n">>, <<"m", "a", "k", "e">>, <<"s", "a", "i", "d">>, <<"o", "n", "e">>,
     <<"h", "i", "s">>, <<"a", "n">>, <<"p", "e", "o", "p", "l", "e">>, <<"t", "i", "m", "e">>,
     <<"w", "a", "y">>, <<"o", "t", "h", "e", "r">>, <<"b", "e", "e", "n">>,
     <<"t", "h", "i", "s">>, <<"s", "o">>, <<"t", "w", "o">>, <<"a", "r", "e">>,
     <<"w", "e", "r", "e">>, <<"w", "h", "e", "n">>, <<"u", "s", "e">>, <<"b", "u", "t">>,
     <<"t", "h", "a", "n">>, <<"y", "o", "u">>, <<"o", "f">>, <<"s", "h", "e">>, <<"i", "n">>,
     <<"a", "l", "l">>, <<"y", "o", "u", "r">>, <<"t", "h", "e", "i", "r">>, <<"h", "i", "m">>,
     <<"o", "r">>, <<"w", "a", "t", "e", "r">>, <<"h", "a", "v", "e">>, <<"e", "a", "c", "h">>,
     <<"b", "e">>, <<"w", "o", "r", "d">>, <<"h", "a", "s">>, <<"m", "y">>, <<"s", "e", "e">>,
     <<"i", "t">>, <<"i", "t", "s">>, <<"w", "e">>, <<"f", "r", "o", "m">>, <<"n", "o">>,
     <<"a", "t">>, <<"t", "h", "e">>, <<"a", "b", "o", "u", "t">>, <<"s", "o", "m", "e">>,
     <<"a", "s">>, <<"f", "i", "r", "s", "t">>, <<"t", "h", "e", "s", "e">>}

VALID_SHORT ==
    {<<"o", "b">>, <<"d", "u">>, <<"n", "e">>, <<"a", "n">>, <<"p", "o">>, <<"e", "r">>,
     <<"u", "m">>, <<"i", "n">>, <<"e", "i">>, <<"s", "o">>, <<"e", "s">>, <<"d", "a">>,
     <<"a", "b">>, <<"z", "u">>, <<"i", "m">>, <<"w", "o">>, <<"j", "a">>}

valid_homographs ==
    {<<"m", "o", "o", "r">>, <<"s", "o", "h", "n">>, <<"i", "d", "e", "a", "l">>,
     <<"m", "o", "m", "e", "n", "t">>, <<"h", "u", "t">>, <<"h", "u", "n", "d">>,
     <<"r", "i", "n", "g">>, <<"a", "r", "m">>, <<"q", "u", "a", "l", "m">>,
     <<"m", "i", "l", "d">>, <<"g", "o", "l", "d">>, <<"n", "u", "s", "s">>, <<"r", "o", "m">>,
     <<"b", "u", "t", "t", "e", "r">>, <<"r", "a", "d", "i", "o">>, <<"s", "a", "n", "k">>,
     <<"s", "o", "l", "o">>, <<"s", "p", "u", "t", "t", "e", "r">>, <<"m", "a", "n">>,
     <<"b", "u", "s">>, <<"r", "e", "d", "e">>, <<"s", "e", "c", "t">>, <<"p", "a", "a", "r">>,
     <<"m", "a", "c", "h", "t">>, <<"s", "e", "l", "f">>, <<"c", "l", "u", "b">>,
     <<"b", "u", "n", "k", "e", "r">>, <<"w", "i", "n", "d">>, <<"k", "i", "n", "n">>,
     <<"s", "p", "e", "c", "k">>, <<"h", "o", "s", "e">>, <<"r", "a", "t", "e">>,
     <<"b", "i", "t", "t", "e", "n">>, <<"s", "a", "u">>, <<"s", "e", "e", "k">>,
     <<"d", "i", "e">>, <<"s", "a", "t", "z">>, <<"n", "a", "p", "e">>, <<"s", "o", "f", "a">>,
     <<"s", "e", "t">>, <<"s", "e", "e", "p">>, <<"r", "a", "w">>, <<"s", "e", "i", "n">>,
     <<"w", "o">>, <<"b", "a", "l", "l">>, <<"d", "e", "n">>, <<"p", "a", "r", "k">>,
     <<"h", "a", "m", "m", "e", "r">>, <<"f", "u", "c", "k", "i", "n", "g">>,
     <<"g", "i", "f", "t">>, <<"m", "e">>, <<"s", "i", "n", "k">>, <<"m", "e", "i", "n">>,
     <<"n", "u", "t">>, <<"q", "u", "i", "z">>, <<"r", "a", "u", "m">>, <<"s", "e", "e", "n">>,
     <<"i", "m">>, <<"p", "a", "s", "s">>, <<"h", "a", "l", "t">>, <<"s", "c", "a", "n">>,
     <<"m", "a", "n", "n">>, <<"s", "h", "a", "c", "k">>, <<"e", "l", "f">>,
     <<"c", "h", "e", "f">>, <<"s", "c", "h", "o", "o", "l">>, <<"n", "e", "u", "n">>,
     <<"w", "a", "r">>, <<"n", "e", "t", "t">>, <<"t", "a", "g">>, <<"p", "a", "r", "t">>,
     <<"m", "o", "n", "d">>, <<"s", "p", "u", "r">>, <<"a", "k", "t">>, <<"r", "u", "n", "d">>,
     <<"s", "e", "a", "l">>, <<"s", "h", "a", "m", "e">>, <<"m", "a", "c", "h", "e", "n">>,
     <<"s", "a", "g", "e">>, <<"s", "a", "l", "e">>, <<"s", "e", "n", "d">>,
     <<"s", "a", "c", "k">>, <<"m", "a", "m", "a">>, <<"n", "e", "w", "s">>,
     <<"c", "h", "i", "n">>, <<"s", "p", "o", "r", "t">>, <<"h", "a", "n", "d">>,
     <<"w", "a", "n", "d">>, <<"d", "e", "m">>, <<"n", "o", "t">>, <<"b", "a", "d">>,
     <<"g", "a", "s">>, <<"m", "u", "s", "s">>, <<"m", "i", "s", "t">>, <<"l", "i", "s", "t">>,
     <<"r", "o", "h">>, <<"a", "n">>, <<"f", "e", "s", "t">>, <<"m", "e", "h", "l">>,
     <<"s", "e", "a", "t">>, <<"s", "e", "n", "t">>, <<"s", "e", "a", "m">>,
     <<"s", "a", "t", "t">>, <<"w", "e", "r">>, <<"l", "i", "n", "k", "s">>,
     <<"s", "e", "h", "r">>, <<"m", "e", "e", "r">>, <<"p", "o">>, <<"p", "u", "n", "k">>,
     <<"r", "a", "t">>, <<"s", "o">>, <<"p", "o", "s", "t">>, <<"r", "o", "l", "l">>,
     <<"d", "e", "r">>, <<"d", "a", "s">>, <<"m", "u", "s", "k">>, <<"p", "l", "u", "s">>,
     <<"b", "a", "r">>, <<"n", "a", "m", "e">>, <<"p", "a", "c", "k">>, <<"s", "a", "n", "g">>,
     <<"g", "r", "a", "s", "s">>, <<"s", "a", "k", "e">>, <<"k", "i", "n", "d">>,
     <<"m", "a", "s", "t">>, <<"r", "a", "n", "g">>, <<"f", "a", "s", "t">>,
     <<"b", "r", "i", "n", "g">>, <<"g", "e", "n", "e", "r", "a", "l">>, <<"r", "a", "n", "k">>,
     <<"m", "o", "s", "t">>, <<"n", "a", "c", "h">>, <<"l", "a", "s", "t">>,
     <<"g", "a", "n", "g">>, <<"s", "p", "a", "n">>, <<"s", "a", "l", "t">>,
     <<"s", "c", "a", "m">>, <<"s", "a", "t", "i", "n">>, <<"p", "a", "n">>,
     <<"f", "i", "n", "g", "e", "r">>, <<"n", "u", "n">>, <<"i", "n">>, <<"n", "i", "e">>,
     <<"m", "a", "t", "t">>, <<"r", "e", "i", "s">>, <<"s", "p", "a", "t">>,
     <<"l", "a", "n", "d">>, <<"r", "u", "f">>, <<"b", "a", "l", "d">>, <<"r", "e", "i", "n">>,
     <<"d", "e", "s">>, <<"s", "a", "n", "d">>, <<"s", "t", "a", "b">>, <<"s", "p", "o", "t">>,
     <<"g", "r", "a", "b">>, <<"p", "a", "u", "s", "e">>, <<"s", "e", "e">>,
     <<"h", "i", "e", "r">>, <<"s", "c", "h", "u", "r">>, <<"s", "c", "h", "m", "a", "l">>,
     <<"n", "e", "s", "t">>, <<"r", "e", "s", "t">>, <<"p", "r", "o">>, <<"s", "p", "a", "r">>,
     <<"r", "o", "t">>, <<"r", "o", "s", "t">>, <<"a", "g">>, <<"a", "n", "g", "e", "l">>,
     <<"s", "a", "w">>, <<"s", "c", "u", "m">>, <<"d", "e", "c", "k">>, <<"m", "a", "r", "k">>,
     <<"s", "a", "l", "z">>, <<"a", "r", "t">>, <<"b", "o", "o", "t">>, <<"m", "i", "c", "h">>,
     <<"s", "c", "a", "t">>, <<"b", "a", "n", "g">>, <<"p", "u", "r", "e">>,
     <<"s", "p", "i", "n">>, <<"s", "c", "a", "r">>, <<"s", "a", "t", "e">>,
     <<"c", "o", "o", "l">>, <<"l", "i", "e", "d">>, <<"s", "e", "a">>, <<"s", "a", "v", "e">>,
     <<"s", "h", "a", "d">>, <<"n", "u", "r">>, <<"s", "e", "l", "l">>, <<"b", "a", "n", "k">>,
     <<"s", "o", "l", "d">>, <<"r", "o", "c", "k">>, <<"n", "e", "i", "n">>,
     <<"r", "e", "i", "s", "e">>, <<"r", "e", "i", "t">>, <<"m", "o", "r", "d">>,
     <<"s", "a", "n", "e">>, <<"s", "e", "w">>, <<"r", "a", "t", "t", "e">>,
     <<"p", "l", "a", "n">>, <<"s", "p", "i", "t">>, <<"s", "e", "e", "d">>,
     <<"m", "u", "t", "t", "e", "r">>, <<"s", "a", "m", "e">>, <<"g", "u", "t">>,
     <<"b", "r", "u", "t", "a", "l">>, <<"m", "a", "i", "l">>, <<"s", "e", "e", "m">>,
     <<"b", "a", "n", "d">>}

\* the characters of [0-9]
DigitChars == {"0", "1", "2", "3", "4", "5", "6", "7", "8", "9"}

\* the characters of the class searched for special characters (all but the
\* backquote, which a string of this module cannot hold)
SpecialChars ==
    {"?", "!", "@", "#", "$", "%", "^", "&", "*", "(", ")", "_", "=", "+", "[", "]", "{", "}", ";",
     ":", "'", "\"", "\\", "|", "<", ">", "~", "."}

HasCharIn(s, class) == \E i \in 1..Len(s) : s[i] \in class

\* the English leakage test without the Master Set
english_leakage_unlisted(lemma, master_lemmas) ==
    /\ lower(lemma) \in ENGLISH_STOPWORDS
    /\ lower(lemma) \notin valid_homographs

\* check 4, English leakage: the lemma is reported as a possible English word
english_leakage(lemma, master_lemmas) ==
    /\ lower(lemma) \in ENGLISH_STOPWORDS
    /\ lower(lemma) \notin valid_homographs
    /\ lemma \notin master_lemmas

\* the issues appended for one row, in order
check_quality_row(row, master_lemmas) ==
    LET lemma == strip(pystr(read_csv_cell(row.lemma)))
        trans == strip(pystr(read_csv_cell(row.translation)))
    IN  IF lemma = <<>> \/ lemma = <<"n", "a", "n">>
        THEN <<"Empty Lemma">>
        ELSE (IF Len(lemma) < 2 /\ lower(lemma) \notin VALID_SHORT
              THEN <<"Too short (Garbage?)">> ELSE <<>>)
             \o (IF HasCharIn(lemma, DigitChars) THEN <<"Contains Numbers">> ELSE <<>>)
             \o (IF HasCharIn(lemma, SpecialChars) THEN <<"Contains Special Chars">> ELSE <<>>)
             \o (IF english_leakage(lemma, master_lemmas)
                 THEN <<"Possible English Word">> ELSE <<>>)
             \o (IF trans = <<>> \/ trans = <<"n", "a", "n">> THEN <<"MISSING TRANSLATION">> ELSE <<>>)
             \o (IF islower(lemma[1]) /\ lemma \notin master_lemmas
                 THEN <<"Lowercase Lemma (Not in Master)">> ELSE <<>>)
             \o (IF /\ \E old \in {<<"a", "e">>, <<"u", "e">>, <<"o", "e">>} : contains(lemma, old)
                    /\ lemma \notin master_lemmas
                 THEN <<"Potential Umlaut Replacement (ae/ue/oe)">> ELSE <<>>)

CheckLemmaCells ==
    {<<>>, <<" ">>, <<"t", "h", "e">>, <<"T", "h", "e">>, <<"T", "a", "g">>, <<"t", "a", "g">>,
     <<"a", "l", "l">>, <<"i", "n">>, <<"n", "o", "t">>, <<"H", "a", "u", "s">>, <<"x">>,
     <<"z", ".", "B", ".">>, <<"f", "u", "e", "r">>, <<"a", "1">>, <<"n", "a", "n">>}

CheckTranslationCells == {<<>>, <<" ">>, <<"c", "a", "s", "a">>}

CheckMasterPool == {<<"t", "h", "e">>, <<"T", "h", "e">>, <<"T", "a", "g">>, <<"H", "a", "u", "s">>,
     <<"a", "l", "l">>}

InitCheck ==
    /\ \E m \in {s \in SUBSET CheckMasterPool : Cardinality(s) <= MaxMasterSize},
          lemma \in CheckLemmaCells, translation \in CheckTranslationCells :
          input = [master |-> m, row |-> Row(lemma, translation)]
    /\ output = <<>>
    /\ files = EmptyLexicon
    /\ dfs = EmptyLexicon
    /\ op = "none"
    /\ out = <<>>
    /\ master = {}
    /\ run = NoRun

\* check_quality() on the row
CheckQuality ==
    /\ output = <<>>
    /\ output' = <<[tool |-> "check_quality_v2",
                    issues |-> check_quality_row(input.row, input.master)]>>
    /\ UNCHANGED <<input, dfs, files, op, out, master, run>>

NextCheck == CheckQuality

SpecCheck == InitCheck /\ [][NextCheck]_vars

\* C19 (as claimed): a row whose translation is empty is reported with the
\* MISSING TRANSLATION defect whatever other defects it has; when its lemma is
\* empty as well the row has both the Empty Lemma and the MISSING TRANSLATION
\* defect.
C19_MissingTranslationAlwaysReported ==
    (output # <<>> /\ strip(input.row.translation) = <<>>) =>
        /\ Contains(output[1].issues, "MISSING TRANSLATION")
        /\ strip(input.row.lemma) = <<>> => Contains(output[1].issues, "Empty Lemma")

-----------------------------------------------------------------------------
(* Further properties of fix_b2, the VocabManager and fix_csvs *)

\* the lemmas of the rows of df are pairwise distinct
DistinctLemmas(df) == \A i, j \in 1..Len(df) : i # j => df[i].lemma # df[j].lemma

\* C21 (as claimed): after a fix_b2 run the lemmas of the rows written to B2
\* are pairwise distinct, whatever B2 held before, the same lemma on several
\* rows included.
C21_WrittenB2HasNoDuplicates ==
    run.n >= 1 => DistinctLemmas(files["B2"])

\* the rows of df are in ascending order of lemma
SortedByLemma(df) == \A i \in 1..(Len(df) - 1) : ~StrLess(df[i + 1].lemma, df[i].lemma)

AllSorted(d) == \A level \in Levels : SortedByLemma(d[level])

\* C22 (as claimed): when every level is sorted by lemma, in memory and on
\* disk, a call of add_word, remove_word, update_word or move_word leaves every
\* level file sorted by lemma; so the persisted levels stay sorted along any
\* finite sequence of calls.
C22_PersistedLevelsStaySorted ==
    [][(op' \in {"add", "remove", "update", "move"} /\ AllSorted(dfs) /\ AllSorted(files)) =>
          AllSorted(files')]_vars

-----------------------------------------------------------------------------
(* VocabManager.lint (vocab_manager.py) on a lexicon loaded from any files *)

\* the multi-word check that looks at the first row only
multi_word_first_row(df) == df # <<>> /\ HasSpace(df[1].lemma)

\* df['German_Lemma'].str.contains(' ', na=False).any()
multi_word(df) == \E i \in 1..Len(df) : HasSpace(df[i].lemma)

\* df['German_Lemma'].duplicated().any()
duplicated_any(df) == \E i, j \in 1..Len(df) : i < j /\ df[i].lemma = df[j].lemma

\* the loop over the rows of a level from row k on; r = [map, has_errors, out]
\* with map the word_to_level_map
RECURSIVE LintRows(_, _, _, _)
LintRows(df, level, k, r) ==
    IF k > Len(df)
    THEN r
    ELSE LET word == df[k].lemma
         IN  IF word \in DOMAIN r.map
             THEN LintRows(df, level, k + 1,
                           [r EXCEPT !.has_errors = TRUE,
                                     !.out = Append(@, [msg |-> "ErrorSeen", level |-> level,
                                                        word |-> word,
                                                        prev_level |-> r.map[word]])])
             ELSE LintRows(df, level, k + 1,
                           [r EXCEPT !.map = [w \in DOMAIN r.map \cup {word} |->
                                                 IF w = word THEN level ELSE r.map[w]]])

\* the loop over LEVELS from LEVELS[i] on
RECURSIVE LintLevels(_, _, _)
LintLevels(d, i, r) ==
    IF i > Len(LEVELS)
    THEN r
    ELSE LET level == LEVELS[i]
             df == d[level]
             r1 == [r EXCEPT !.out = Append(@, Msg("Checking", level))]
             r2 == IF multi_word(df)
                   THEN [r1 EXCEPT !.has_errors = TRUE,
                                   !.out = Append(@, Msg("ErrorMultiWord", level))]
                   ELSE r1
             r3 == IF duplicated_any(df)
                   THEN [r2 EXCEPT !.has_errors = TRUE,
                                   !.out = Append(@, Msg("ErrorDuplicates", level))]
                   ELSE r2
         IN  LintLevels(d, i + 1, LintRows(df, level, 1, r3))

\* lint(): the object it leaves, with what it printed
lint(s) ==
    LET r == LintLevels(s.dfs, 1, [map |-> <<>>, has_errors |-> FALSE, out |-> s.out])
    IN  [s EXCEPT !.out = Append(r.out, IF r.has_errors
                                      THEN Msg("Fail", "")
                                      ELSE Msg("Success", ""))]

\* the lexicons of at most n rows over the lemmas Words, rows in any order
RECURSIVE LintLexicons(_)
LintLexicons(n) ==
    IF n = 0
    THEN {EmptyLexicon}
    ELSE LET smaller == LintLexicons(n - 1)
         IN  smaller \cup
             {[lex EXCEPT ![level] = Append(@, Row(w, "x"))] :
                 lex \in smaller, level \in Levels, w \in Words}

InitLint ==
    /\ files \in LintLexicons(MaxInitRows)
    /\ dfs = files
    /\ op = "none"
    /\ out = <<>>
    /\ master = {}
    /\ run = NoRun
    /\ input = NoScript
    /\ output = NoScript

\* the lint command
Lint ==
    /\ op = "none"
    /\ Returns(lint(Cur), "lint")

NextLint == Lint

SpecLint == InitLint /\ [][NextLint]_vars

\* no lemma of the lexicon contains a space
NoSpaces(d) ==
    \A level \in Levels : \A i \in 1..Len(d[level]) : ~HasSpace(d[level][i].lemma)

\* C23: lint prints success if and only if no lemma of the loaded lexicon
\* contains a space, no level has the same lemma on two rows and no lemma is
\* in two levels; otherwise it prints failure; and lint leaves every level as
\* it was, in memory and on disk.
C23_LintSucceedsIffClean ==
    [][op' = "lint" =>
          LET clean == /\ NoSpaces(dfs)
                       /\ \A level \in Levels : DistinctLemmas(dfs[level])
                       /\ PairwiseDisjoint(dfs)
          IN  /\ Contains(out', Msg("Success", "")) <=> clean
              /\ Contains(out', Msg("Fail", "")) <=> ~clean
              /\ dfs' = dfs
              /\ files' = files]_vars

\* C23 witness: lint has reported success on a lexicon with rows in two levels.
C23_Witness ==
    /\ op = "lint"
    /\ Contains(out, Msg("Success", ""))
    /\ Cardinality(NonEmptyLevels(dfs)) = 2

-----------------------------------------------------------------------------
(* Further properties of the row correction of fix_csvs *)

\* C24 (as claimed): when the lemma fix_csvs reads from the row is non-empty
\* and has no whitespace, and no member of the Master Set has whitespace, the
\* lemma it writes is non-empty and has no whitespace; the keys of the typo
\* table included.
C24_CorrectedLemmaIsOneWord ==
    (/\ Len(output) = 1
     /\ output[1].tool = "fix_csvs"
     /\ LemmaRead # <<>>
     /\ ~HasWhitespace(LemmaRead)
     /\ \A m \in input.master : ~HasWhitespace(m)) =>
        /\ output[1].result # None
        /\ output[1].result[1].lemma # <<>>
        /\ ~HasWhitespace(output[1].result[1].lemma)

-----------------------------------------------------------------------------
(* fix_csvs() over the level files: one pass of the whole script *)

\* the rows of one file from row k on, appended to new_rows: Some(new_rows), or
\* None when a row raises and the file is given up with nothing written
RECURSIVE fix_csvs_rows(_, _, _, _)
fix_csvs_rows(df, k, new_rows, master_lemmas) ==
    IF k > Len(df)
    THEN Some(new_rows)
    ELSE LET fixed == fix_csvs_row(df[k], master_lemmas)
         IN  IF fixed = None
             THEN None
             ELSE fix_csvs_rows(df, k + 1, Append(new_rows, fixed[1]), master_lemmas)

\* the <level>_fixed.csv files of a pass: for each level Some(rows) or None
fix_csvs(levels, master_lemmas) ==
    [level \in Levels |-> fix_csvs_rows(levels[level], 1, <<>>, master_lemmas)]

MaxBulkRows == 2

BulkLemmaCells ==
    {<<"h", "a", "l", "l", "o">>, <<"H", "a", "l", "l", "o">>, <<"f", "u", "e", "r">>,
     <<"f", "ü", "r">>, <<"e", "s", "s", "e", "n">>, <<"E", "s", "s", "e", "n">>, <<" ">>}

BulkMasters == SUBSET {<<"E", "s", "s", "e", "n">>, <<"f", "ü", "r">>}

\* the level files of at most n rows in all, cells as text
RECURSIVE BulkLevels(_)
BulkLevels(n) ==
    IF n = 0
    THEN {EmptyLexicon}
    ELSE LET smaller == BulkLevels(n - 1)
         IN  smaller \cup
             {[lex EXCEPT ![level] = Append(@, Row(w, <<"c", "a", "s", "a">>))] :
                 lex \in smaller, level \in Levels, w \in BulkLemmaCells}

InitBulk ==
    /\ \E m \in BulkMasters, levels \in BulkLevels(MaxBulkRows) :
          input = [master |-> m, levels |-> levels]
    /\ output = NoScript
    /\ files = EmptyLexicon
    /\ dfs = EmptyLexicon
    /\ op = "none"
    /\ out = <<>>
    /\ master = {}
    /\ run = NoRun

\* one run of fix_csvs.py
FixCsvsPass ==
    /\ output = NoScript
    /\ output' = fix_csvs(input.levels, input.master)
    /\ UNCHANGED <<input, dfs, files, op, out, master, run>>

NextBulk == FixCsvsPass

SpecBulk == InitBulk /\ [][NextBulk]_vars

\* C25 (as claimed): when the lemmas of the level files are pairwise distinct
\* within each level and no lemma is in two levels, the same holds for the
\* files a pass of fix_csvs writes: no two rows of the output have one lemma.
C25_PassCreatesNoDuplicates ==
    (/\ output # NoScript
     /\ \A level \in Levels : DistinctLemmas(input.levels[level])
     /\ PairwiseDisjoint(input.levels)) =>
        LET written == [level \in Levels |->
                           IF output[level] = None THEN <<>> ELSE output[level][1]]
        IN  /\ \A level \in Levels : DistinctLemmas(written[level])
            /\ PairwiseDisjoint(written)

=============================================================================
